---- MODULE Spec2Model ----
(***************************************************************************)
(* A model of feedburst's configuration and event-log parsers              *)
(* (src/src/parser.rs).  Text is a sequence of one-character strings; a    *)
(* file is the sequence of its lines, as `input.lines()` yields them.      *)
(***************************************************************************)
EXTENDS Integers, Sequences, FiniteSets, TLC

VARIABLES call, input, pc, row, out, root_path, command, result, ret

vars == <<call, input, pc, row, out, root_path, command, result, ret>>

\* ------------------------------------------------------------ bounds
\* the longest file, in lines, built from CoreConfigLines / EventLines
MaxLines == 3
\* the most `@` clauses on a generated feed line
MaxClauses == 2

\* ------------------------------------------------------------ characters
UpperChars == <<"A", "B", "C", "D", "E", "F", "G", "H", "I", "J", "K", "L", "M", "N", "O", "P", "Q", "R", "S", "T", "U", "V", "W", "X", "Y", "Z">>
LowerChars == <<"a", "b", "c", "d", "e", "f", "g", "h", "i", "j", "k", "l", "m", "n", "o", "p", "q", "r", "s", "t", "u", "v", "w", "x", "y", "z">>
Digits == <<"0", "1", "2", "3", "4", "5", "6", "7", "8", "9">>

is_whitespace(c) == c \in {" ", "\t"}

is_digit(c) == \E i \in 1..Len(Digits) : Digits[i] = c

digit_value(c) == (CHOOSE i \in 1..Len(Digits) : Digits[i] = c) - 1

to_lowercase(c) ==
    IF \E i \in 1..Len(UpperChars) : UpperChars[i] = c
    THEN LowerChars[CHOOSE i \in 1..Len(UpperChars) : UpperChars[i] = c]
    ELSE c

lower(s) == [i \in 1..Len(s) |-> to_lowercase(s[i])]

Min(S) == CHOOSE m \in S : \A n \in S : m <= n
Max(S) == CHOOSE m \in S : \A n \in S : m >= n

\* Option values
None == <<>>
Some(v) == <<v>>

\* offset of the first element of s that satisfies the test, or Len(s) + 1
find_whitespace(s) ==
    LET I == {i \in 1..Len(s) : is_whitespace(s[i])}
    IN  IF I = {} THEN Len(s) + 1 ELSE Min(I)
find_non_whitespace(s) ==
    LET I == {i \in 1..Len(s) : ~is_whitespace(s[i])}
    IN  IF I = {} THEN Len(s) + 1 ELSE Min(I)
find_non_digit(s) ==
    LET I == {i \in 1..Len(s) : ~is_digit(s[i])}
    IN  IF I = {} THEN Len(s) + 1 ELSE Min(I)
find_char(s, c) ==
    LET I == {i \in 1..Len(s) : s[i] = c}
    IN  IF I = {} THEN Len(s) + 1 ELSE Min(I)
rfind_non_whitespace(s) ==
    LET I == {i \in 1..Len(s) : ~is_whitespace(s[i])}
    IN  IF I = {} THEN 0 ELSE Max(I)

\* ------------------------------------------------------------ errors
\* ParseError::ExpectedMsg { msg, row, span }; arg carries the text a message embeds
expected(msg, arg, r, span) ==
    [tag |-> "ExpectedMsg", msg |-> msg, arg |-> arg, row |-> r, span |-> span]
\* ParseError::Expected { character, row, span }
expected_char(c, r, span) ==
    [tag |-> "Expected", msg |-> c, arg |-> <<>>, row |-> r, span |-> span]

\* IntoSpan for usize, for (usize, usize) and for Option<()>
span_at(col) == Some(<<col, col>>)
span_of(a, b) == Some(<<a, b>>)

\* Result values: Ok((buf, val)), Err(ParseError), and a panic of the thread
Ok(b, v) == [ok |-> TRUE, buf |-> b, val |-> v]
Err(e) == [ok |-> FALSE, panic |-> FALSE, err |-> e]
Panic(m) == [ok |-> FALSE, panic |-> TRUE, err |-> m]

\* ------------------------------------------------------------ the cursor
Buffer(r, c, t) == [row |-> r, col |-> c, text |-> t]

advance(b, n) ==
    [b EXCEPT !.col = @ + n, !.text = SubSeq(@, n + 1, Len(@))]

trim_start(b) == advance(b, find_non_whitespace(b.text) - 1)

trim_end(b) == [b EXCEPT !.text = SubSeq(@, 1, rfind_non_whitespace(@))]

trim(b) == trim_end(trim_start(b))

peek(b) == IF b.text = <<>> THEN None ELSE Some(b.text[1])

starts_with(b, lit) ==
    Len(b.text) >= Len(lit) /\ SubSeq(b.text, 1, Len(lit)) = lit

starts_with_no_case(b, lit) ==
    Len(b.text) >= Len(lit) /\ lower(SubSeq(b.text, 1, Len(lit))) = lower(lit)

buf_expected(b, msg, arg) == expected(msg, arg, b.row, span_at(b.col))

token(b, lit) ==
    IF starts_with(b, lit) THEN Ok(advance(b, Len(lit)), lit)
    ELSE Err(buf_expected(b, "token", lit))

token_no_case(b, lit) ==
    IF starts_with_no_case(b, lit) THEN Ok(advance(b, Len(lit)), lit)
    ELSE Err(buf_expected(b, "token", lit))

space(b) ==
    IF b.text # <<>> /\ is_whitespace(b.text[1]) THEN Ok(trim_start(b), <<>>)
    ELSE Err(buf_expected(b, "whitespace", <<>>))

space_or_end(b) == IF b.text = <<>> THEN Ok(b, <<>>) ELSE space(b)

read_between(b, open, close) ==
    IF b.text = <<>> \/ b.text[1] # open
    THEN Err(expected_char(open, b.row, span_at(b.col)))
    ELSE LET rest == Tail(b.text)
             end == find_char(rest, close)
         IN  IF end > Len(rest)
             THEN Err(expected_char(close, b.row, span_of(b.col, b.col + Len(b.text))))
             ELSE Ok(advance(b, end + 1), SubSeq(rest, 1, end - 1))

RECURSIVE first_token_of_no_case(_, _)
first_token_of_no_case(b, candidates) ==
    IF candidates = <<>> THEN Err(buf_expected(b, "one of the tokens", <<>>))
    ELSE IF starts_with_no_case(b, Head(candidates))
         THEN Ok(advance(b, Len(Head(candidates))), Head(candidates))
         ELSE first_token_of_no_case(b, Tail(candidates))

\* the `?` operator: continue with the cursor and the value, or return the failure
Try(r, F(_, _)) == IF r.ok THEN F(r.buf, r.val) ELSE r

\* ------------------------------------------------------------ numbers and weekdays
\* usize::MAX on a 64-bit target, as a digit string
UsizeMaxDigits == <<"1", "8", "4", "4", "6", "7", "4", "4", "0", "7", "3", "7", "0", "9", "5", "5", "1", "6", "1", "5">>

strip_zeros(ds) ==
    LET I == {i \in 1..Len(ds) : ds[i] # "0"}
    IN  IF I = {} THEN <<>> ELSE SubSeq(ds, Min(I), Len(ds))

\* ds <= es for digit strings of equal length
RECURSIVE digits_leq(_, _)
digits_leq(ds, es) ==
    IF ds = <<>> THEN TRUE
    ELSE IF digit_value(Head(ds)) < digit_value(Head(es)) THEN TRUE
    ELSE IF digit_value(Head(ds)) > digit_value(Head(es)) THEN FALSE
    ELSE digits_leq(Tail(ds), Tail(es))

fits_usize(ds) ==
    LET s == strip_zeros(ds)
    IN  \/ Len(s) < Len(UsizeMaxDigits)
        \/ Len(s) = Len(UsizeMaxDigits) /\ digits_leq(s, UsizeMaxDigits)

RECURSIVE decimal_value(_)
decimal_value(ds) ==
    IF ds = <<>> THEN 0
    ELSE 10 * decimal_value(SubSeq(ds, 1, Len(ds) - 1)) + digit_value(ds[Len(ds)])

parse_number(b0) ==
    LET buf == trim_start(b0)
        end == find_non_digit(buf.text) - 1
    IN  IF end = 0 THEN Err(buf_expected(buf, "digit", <<>>))
        ELSE IF ~fits_usize(SubSeq(buf.text, 1, end))
             THEN Panic("Should only contain digits")
             ELSE Ok(advance(buf, end), decimal_value(SubSeq(buf.text, 1, end)))

\* parse_weekday matching the names with starts_with, case and all
parse_weekday_case_sensitive(buf) ==
    IF starts_with(buf, <<"s", "u", "n", "d", "a", "y">>) THEN Ok(advance(buf, Len(<<"s", "u", "n", "d", "a", "y">>)), "Sun")
    ELSE IF starts_with(buf, <<"m", "o", "n", "d", "a", "y">>) THEN Ok(advance(buf, Len(<<"m", "o", "n", "d", "a", "y">>)), "Mon")
    ELSE IF starts_with(buf, <<"t", "u", "e", "s", "d", "a", "y">>) THEN Ok(advance(buf, Len(<<"t", "u", "e", "s", "d", "a", "y">>)), "Tue")
    ELSE IF starts_with(buf, <<"w", "e", "d", "n", "e", "s", "d", "a", "y">>) THEN Ok(advance(buf, Len(<<"w", "e", "d", "n", "e", "s", "d", "a", "y">>)), "Wed")
    ELSE IF starts_with(buf, <<"t", "h", "u", "r", "s", "d", "a", "y">>) THEN Ok(advance(buf, Len(<<"t", "h", "u", "r", "s", "d", "a", "y">>)), "Thu")
    ELSE IF starts_with(buf, <<"f", "r", "i", "d", "a", "y">>) THEN Ok(advance(buf, Len(<<"f", "r", "i", "d", "a", "y">>)), "Fri")
    ELSE IF starts_with(buf, <<"s", "a", "t", "u", "r", "d", "a", "y">>) THEN Ok(advance(buf, Len(<<"s", "a", "t", "u", "r", "d", "a", "y">>)), "Sat")
    ELSE Err(buf_expected(buf, "a weekday", <<>>))

parse_weekday(buf) ==
    IF starts_with_no_case(buf, <<"s", "u", "n", "d", "a", "y">>) THEN Ok(advance(buf, Len(<<"s", "u", "n", "d", "a", "y">>)), "Sun")
    ELSE IF starts_with_no_case(buf, <<"m", "o", "n", "d", "a", "y">>) THEN Ok(advance(buf, Len(<<"m", "o", "n", "d", "a", "y">>)), "Mon")
    ELSE IF starts_with_no_case(buf, <<"t", "u", "e", "s", "d", "a", "y">>) THEN Ok(advance(buf, Len(<<"t", "u", "e", "s", "d", "a", "y">>)), "Tue")
    ELSE IF starts_with_no_case(buf, <<"w", "e", "d", "n", "e", "s", "d", "a", "y">>) THEN Ok(advance(buf, Len(<<"w", "e", "d", "n", "e", "s", "d", "a", "y">>)), "Wed")
    ELSE IF starts_with_no_case(buf, <<"t", "h", "u", "r", "s", "d", "a", "y">>) THEN Ok(advance(buf, Len(<<"t", "h", "u", "r", "s", "d", "a", "y">>)), "Thu")
    ELSE IF starts_with_no_case(buf, <<"f", "r", "i", "d", "a", "y">>) THEN Ok(advance(buf, Len(<<"f", "r", "i", "d", "a", "y">>)), "Fri")
    ELSE IF starts_with_no_case(buf, <<"s", "a", "t", "u", "r", "d", "a", "y">>) THEN Ok(advance(buf, Len(<<"s", "a", "t", "u", "r", "d", "a", "y">>)), "Sat")
    ELSE Err(buf_expected(buf, "a weekday", <<>>))

\* ------------------------------------------------------------ policy clauses
On(weekday) == [tag |-> "On", day |-> weekday]
Every(count) == [tag |-> "Every", n |-> count]
Overlap(count) == [tag |-> "Overlap", n |-> count]
Comics(count) == [tag |-> "Comics", n |-> count]
Filter(kind, pat) == [tag |-> "Filter", kind |-> kind, pat |-> pat]
OpenAll == [tag |-> "OpenAll"]

\* Regex::new(pat).is_ok(), for the patterns of the model's alphabet: a pattern is
\* invalid when its groups are unbalanced
RECURSIVE group_depth_ok(_, _)
group_depth_ok(pat, depth) ==
    IF pat = <<>> THEN depth = 0
    ELSE IF Head(pat) = "(" THEN group_depth_ok(Tail(pat), depth + 1)
    ELSE IF Head(pat) = ")" THEN depth > 0 /\ group_depth_ok(Tail(pat), depth - 1)
    ELSE group_depth_ok(Tail(pat), depth)
regex_valid(pat) == group_depth_ok(pat, 0)

policy_on(b0) ==
    Try(token_no_case(b0, <<"o", "n">>), LAMBDA b1, v1 :
    Try(space(b1), LAMBDA b2, v2 :
    Try(parse_weekday(b2), LAMBDA b3, weekday :
    Try(space_or_end(b3), LAMBDA b4, v4 :
    Ok(b4, On(weekday))))))

policy_every(b0) ==
    Try(token_no_case(b0, <<"e", "v", "e", "r", "y">>), LAMBDA b1, v1 :
    Try(space(b1), LAMBDA b2, v2 :
    Try(parse_number(b2), LAMBDA b3, count :
    Try(space(b3), LAMBDA b4, v4 :
    Try(first_token_of_no_case(b4, <<<<"d", "a", "y", "s">>, <<"d", "a", "y">>>>), LAMBDA b5, v5 :
    Try(space_or_end(b5), LAMBDA b6, v6 :
    Ok(b6, Every(count))))))))

policy_overlap(b0) ==
    Try(token_no_case(b0, <<"o", "v", "e", "r", "l", "a", "p">>), LAMBDA b1, v1 :
    Try(space(b1), LAMBDA b2, v2 :
    Try(parse_number(b2), LAMBDA b3, count :
    Try(space(b3), LAMBDA b4, v4 :
    Try(first_token_of_no_case(b4, <<<<"c", "o", "m", "i", "c", "s">>, <<"c", "o", "m", "i", "c">>>>), LAMBDA b5, v5 :
    Try(space_or_end(b5), LAMBDA b6, v6 :
    Ok(b6, Overlap(count))))))))

\* the match on (act_kind, act_target)
filter_type(act_kind, act_target) ==
    IF act_kind = <<"k", "e", "e", "p">> /\ act_target = <<"t", "i", "t", "l", "e">> THEN Some("KeepTitle")
    ELSE IF act_kind = <<"k", "e", "e", "p">> /\ act_target = <<"u", "r", "l">> THEN Some("KeepUrl")
    ELSE IF act_kind = <<"i", "g", "n", "o", "r", "e">> /\ act_target = <<"t", "i", "t", "l", "e">> THEN Some("IgnoreTitle")
    ELSE IF act_kind = <<"i", "g", "n", "o", "r", "e">> /\ act_target = <<"u", "r", "l">> THEN Some("IgnoreUrl")
    ELSE None

policy_filter(b0) ==
    Try(first_token_of_no_case(b0, <<<<"k", "e", "e", "p">>, <<"i", "g", "n", "o", "r", "e">>>>), LAMBDA b1, act_kind :
    Try(space(b1), LAMBDA b2, v2 :
    Try(first_token_of_no_case(b2, <<<<"u", "r", "l">>, <<"t", "i", "t", "l", "e">>>>), LAMBDA b3, act_target :
    Try(space(b3), LAMBDA b4, v4 :
    IF b4.text = <<>> THEN Err(buf_expected(b4, "a pattern", <<>>))
    ELSE
    Try(read_between(b4, b4.text[1], b4.text[1]), LAMBDA b5, pat :
    IF ~regex_valid(pat) THEN Err(buf_expected(b5, "to be a valid pattern", pat))
    ELSE IF filter_type(act_kind, act_target) = None THEN Panic("invalid filter type")
    ELSE Ok(b5, Filter(filter_type(act_kind, act_target)[1], pat)))))))

policy_open(b0) ==
    Try(token_no_case(b0, <<"o", "p", "e", "n">>), LAMBDA b1, v1 :
    Try(space(b1), LAMBDA b2, v2 :
    Try(token_no_case(b2, <<"a", "l", "l">>), LAMBDA b3, v3 :
    Try(space_or_end(b3), LAMBDA b4, v4 :
    Ok(b4, OpenAll)))))

policy_comics(b0) ==
    Try(parse_number(b0), LAMBDA b1, count :
    Try(token_no_case(trim_start(b1), <<"n", "e", "w">>), LAMBDA b2, v2 :
    Try(space(b2), LAMBDA b3, v3 :
    Try(first_token_of_no_case(b3, <<<<"c", "o", "m", "i", "c", "s">>, <<"c", "o", "m", "i", "c">>>>), LAMBDA b4, v4 :
    Ok(b4, Comics(count))))))

parse_policy(b0) ==
    Try(token(trim_start(b0), <<"@">>), LAMBDA b1, v1 :
    Try(space(b1), LAMBDA buf, v2 :
    IF starts_with_no_case(buf, <<"o", "n">>) THEN policy_on(buf)
    ELSE IF starts_with_no_case(buf, <<"e", "v", "e", "r", "y">>) THEN policy_every(buf)
    ELSE IF starts_with_no_case(buf, <<"o", "v", "e", "r", "l", "a", "p">>) THEN policy_overlap(buf)
    ELSE IF starts_with_no_case(buf, <<"k", "e", "e", "p">>) \/ starts_with_no_case(buf, <<"i", "g", "n", "o", "r", "e">>)
         THEN policy_filter(buf)
    ELSE IF starts_with_no_case(buf, <<"o", "p", "e", "n">>) THEN policy_open(buf)
    ELSE IF buf.text # <<>> /\ is_digit(buf.text[1]) THEN policy_comics(buf)
    ELSE Err(expected("a policy definition", <<>>, buf.row,
                      span_of(buf.col, buf.col + Len(buf.text))))))

\* the while loop of parse_policies, from a cursor already trimmed at its start
RECURSIVE policies_loop(_, _)
policies_loop(buf, policies) ==
    IF ~starts_with(buf, <<"@">>) THEN Ok(buf, policies)
    ELSE Try(parse_policy(buf), LAMBDA inp, policy :
             policies_loop(trim_start(inp), Append(policies, policy)))

parse_policies(b0) == policies_loop(trim_start(b0), <<>>)

\* ------------------------------------------------------------ feed lines
parse_name(buf) == read_between(trim_start(buf), "\"", "\"")

parse_url(buf) == read_between(trim_start(buf), "<", ">")

\* from_iter keeping one spec of each variant
from_iter_by_tag(policies) ==
    {policies[i] : i \in {k \in 1..Len(policies) :
                            \A j \in 1..(k - 1) : policies[j].tag # policies[k].tag}}

\* HashSet::from_iter(policies)
from_iter(policies) == {policies[i] : i \in 1..Len(policies)}

FeedInfo(name, url, update_policies, root, cmd) ==
    [name |-> name, url |-> url, update_policies |-> update_policies,
     root |-> root, command |-> cmd]

parse_line(b0) ==
    Try(parse_name(b0), LAMBDA b1, name :
    Try(parse_url(trim_start(b1)), LAMBDA b2, url :
    Try(parse_policies(trim_start(b2)), LAMBDA b3, policies :
    Ok(b3, FeedInfo(name, url, from_iter(policies), None, None)))))

\* ------------------------------------------------------------ command tokenization
parse_command_part(b0) ==
    LET buf == trim_start(b0)
    IN  IF peek(buf) = Some("'") THEN read_between(buf, "'", "'")
        ELSE IF peek(buf) = Some("\"") THEN read_between(buf, "\"", "\"")
        ELSE LET offset == find_whitespace(buf.text) - 1
             IN  Ok(advance(buf, offset), SubSeq(buf.text, 1, offset))

RECURSIVE command_loop(_, _)
command_loop(buf, output) ==
    IF buf.text = <<>> THEN Ok(buf, output)
    ELSE Try(parse_command_part(buf), LAMBDA new_buf, part :
             command_loop(trim_start(new_buf), Append(output, part)))

parse_command_internal(buf) == command_loop(trim(buf), <<>>)

parse_command(text) == parse_command_internal(Buffer(0, 0, text))

\* ------------------------------------------------------------ parse_config, one line
\* `root ...`: the new value of root_path
root_directive(b0) ==
    Try(token_no_case(b0, <<"r", "o", "o", "t">>), LAMBDA buf, v1 :
    IF trim(buf).text = <<>> THEN Ok(buf, None)
    ELSE Try(space(buf), LAMBDA b2, v2 : Ok(b2, Some(trim(b2).text))))

\* `command ...`: the new value of command
command_directive(b0) ==
    Try(token_no_case(b0, <<"c", "o", "m", "m", "a", "n", "d">>), LAMBDA buf, v1 :
    IF trim(buf).text = <<>> THEN Ok(buf, None)
    ELSE Try(parse_command(buf.text), LAMBDA b2, args : Ok(b2, Some(args))))

\* feed_entry without `feed.root = root_path.map(From::from)`
feed_entry_root_unset(buf, rp, cmd) ==
    Try(parse_line(buf), LAMBDA b1, feed :
    Ok(b1, [feed EXCEPT !.command = cmd]))

\* a feed line: parse_line, then the stamping with the running root and command
feed_entry(buf, rp, cmd) ==
    Try(parse_line(buf), LAMBDA b1, feed :
    Ok(b1, [feed EXCEPT !.root = rp, !.command = cmd]))

\* push at the front of the list
push_front(o, feed) == <<feed>> \o o

\* out.push(feed)
push(o, feed) == Append(o, feed)

\* the outcome of one pass of the loop body: the locals, and the early return if any
Continue(rp, cmd, o) == [root_path |-> rp, command |-> cmd, out |-> o, ret |-> None]
Return(rp, cmd, o, r) == [root_path |-> rp, command |-> cmd, out |-> o, ret |-> Some(r)]

\* feed_line skipping a line that does not parse
feed_line_skip(buf, rp, cmd, o) ==
    LET f == feed_entry(buf, rp, cmd)
    IN  IF f.ok THEN Continue(rp, cmd, push(o, f.val)) ELSE Continue(rp, cmd, o)

feed_line(buf, rp, cmd, o) ==
    LET f == feed_entry(buf, rp, cmd)
    IN  IF f.ok THEN Continue(rp, cmd, push(o, f.val)) ELSE Return(rp, cmd, o, f)

\* the body of the for loop; r is the index enumerate() gives the line (from 0)
config_line(r, line, rp, cmd, o) ==
    LET buf == trim(Buffer(r + 1, 0, line))
    IN  IF starts_with(buf, <<"#">>) \/ buf.text = <<>> THEN Continue(rp, cmd, o)
        ELSE IF starts_with(buf, <<"r", "o", "o", "t">>)
             THEN LET d == root_directive(buf)
                  IN  IF d.ok THEN Continue(d.val, cmd, o) ELSE Return(rp, cmd, o, d)
        ELSE IF starts_with(buf, <<"c", "o", "m", "m", "a", "n", "d">>)
             THEN LET d == command_directive(buf)
                  IN  IF d.ok THEN Continue(rp, d.val, o) ELSE Return(rp, cmd, o, d)
        ELSE feed_line(buf, rp, cmd, o)

\* ------------------------------------------------------------ parse_events, one line
Read(date) == [tag |-> "Read", date |-> date]
ComicUrl(url) == [tag |-> "ComicUrl", url |-> url]

all_digits(s) == s # <<>> /\ \A i \in 1..Len(s) : is_digit(s[i])

\* `text.parse::<DateTime<Utc>>()` for timestamps without a fraction of a second:
\* YYYY-MM-DDTHH:MM:SS+HH:MM, each field in its range
parse_date(t) ==
    LET f(a, b) == SubSeq(t, a, b)
        shape == /\ Len(t) = 25
                 /\ all_digits(f(1, 4)) /\ t[5] = "-" /\ all_digits(f(6, 7))
                 /\ t[8] = "-" /\ all_digits(f(9, 10)) /\ t[11] \in {"T", "t"}
                 /\ all_digits(f(12, 13)) /\ t[14] = ":" /\ all_digits(f(15, 16))
                 /\ t[17] = ":" /\ all_digits(f(18, 19)) /\ t[20] \in {"+", "-"}
                 /\ all_digits(f(21, 22)) /\ t[23] = ":" /\ all_digits(f(24, 25))
        date == [year |-> decimal_value(f(1, 4)), month |-> decimal_value(f(6, 7)),
                 day |-> decimal_value(f(9, 10)), hour |-> decimal_value(f(12, 13)),
                 minute |-> decimal_value(f(15, 16)), second |-> decimal_value(f(18, 19)),
                 east |-> t[20] = "+",
                 offset |-> 60 * decimal_value(f(21, 22)) + decimal_value(f(24, 25))]
    IN  IF ~shape THEN None
        ELSE IF /\ date.month \in 1..12 /\ date.day \in 1..31 /\ date.hour < 24
                /\ date.minute < 60 /\ date.second < 60 /\ date.offset < 24 * 60
             THEN Some(date) ELSE None

read_event(b0) ==
    Try(token_no_case(b0, <<"r", "e", "a", "d">>), LAMBDA b1, v1 :
    Try(space(b1), LAMBDA line, v2 :
    IF parse_date(line.text) = None THEN Err(buf_expected(line, "a valid date", <<>>))
    ELSE Ok(line, Read(parse_date(line.text)[1]))))

url_event(b0) ==
    Try(read_between(b0, "<", ">"), LAMBDA line, url :
    Try(space_or_end(line), LAMBDA b2, v2 :
    Ok(b2, ComicUrl(url))))

EventContinue(res) == [result |-> res, ret |-> None]
EventReturn(res, r) == [result |-> res, ret |-> Some(r)]

\* the body of the for loop; r is the index enumerate() gives the line (from 0)
event_line(r, text, res) ==
    LET line == trim(Buffer(r + 1, 0, text))
    IN  IF line.text = <<>> THEN EventContinue(res)
        ELSE IF starts_with_no_case(line, <<"r", "e", "a", "d">>)
             THEN LET e == read_event(line)
                  IN  IF e.ok THEN EventContinue(Append(res, e.val)) ELSE EventReturn(res, e)
        ELSE IF starts_with(line, <<"<">>)
             THEN LET e == url_event(line)
                  IN  IF e.ok THEN EventContinue(Append(res, e.val)) ELSE EventReturn(res, e)
        ELSE EventReturn(res, Err(expected("a feed event", <<>>, r, None)))

\* ------------------------------------------------------------ the inputs
\* lines of configuration files of up to MaxLines lines
CoreConfigLines ==
    { <<>>, <<"#", " ", "c">>, <<"r", "o", "o", "t", " ", "/", "a">>, <<" ", " ", "r", "o", "o", "t", " ", " ", "/", "b", " ", "c", " ", " ">>, <<"r", "o", "o", "t", " ">>, <<"c", "o", "m", "m", "a", "n", "d", " ", "x", " ", "'", "y", " ", "z", "'">>, <<"c", "o", "m", "m", "a", "n", "d">>,
      <<"\"", "f", "\"", " ", "<", "u", ">">>, <<"\"", "g", "\"", " ", "<", "v", ">", " ", "@", " ", "o", "n", " ", "M", "o", "n", "d", "a", "y">>, <<"c", "o", "m", "m", "a", "n", "d", " ", "\"", "x">>, <<"r", "o", "o", "t", "/", "a">>,
      <<"\"", "h", "\"", " ", "<", "w", ">", " ", "@", " ", "o", "n", " ", "w", "e", "n", "d", "s", "d", "a", "y">> }

\* `@` clauses of generated feed lines
Clauses ==
    { <<"@", " ", "o", "n", " ", "M", "o", "n", "d", "a", "y">>, <<"@", " ", "o", "n", " ", "m", "o", "n", "d", "a", "y">>, <<"@", " ", "e", "v", "e", "r", "y", " ", "2", " ", "d", "a", "y", "s">>, <<"@", " ", "e", "v", "e", "r", "y", " ", "0", "2", " ", "d", "a", "y">>,
      <<"@", " ", "o", "v", "e", "r", "l", "a", "p", " ", "2", " ", "c", "o", "m", "i", "c", "s">>, <<"@", " ", "k", "e", "e", "p", " ", "t", "i", "t", "l", "e", " ", "/", "a", "/">>, <<"@", " ", "k", "e", "e", "p", " ", "t", "i", "t", "l", "e", " ", "/", "b", "/">>, <<"@", " ", "k", "e", "e", "p", " ", "u", "r", "l", " ", "/", "a", "/">>,
      <<"@", " ", "i", "g", "n", "o", "r", "e", " ", "t", "i", "t", "l", "e", " ", "\"", "a", "\"">>, <<"@", " ", "o", "p", "e", "n", " ", "a", "l", "l">>, <<"@", " ", "2", " ", "n", "e", "w", " ", "c", "o", "m", "i", "c", "s">>, <<"@", " ", "3", " ", "n", "e", "w", " ", "c", "o", "m", "i", "c">>,
      <<"@", " ", "k", "e", "e", "p", " ", "t", "i", "t", "l", "e", " ", "/", "a", "/", "x">>, <<"@", " ", "3", " ", "n", "e", "w", " ", "c", "o", "m", "i", "c", "s", "X">>, <<"@", " ", "o", "n", " ", "m", "o", "n", "d", "a", "y", "s">>, <<"@", " ", "f", "o", "o">> }

RECURSIVE ClauseRuns(_)
ClauseRuns(n) ==
    IF n = 0 THEN {<<>>}
    ELSE LET shorter == ClauseRuns(n - 1)
         IN  shorter \cup {p \o <<" ">> \o c : p \in shorter, c \in Clauses}

FeedPrefix == <<"\"", "f", "\"", " ", "<", "u", ">">>
Trailers == {<<>>, <<" ", "x">>}
FeedLines == {FeedPrefix \o run \o t : run \in ClauseRuns(MaxClauses), t \in Trailers}

\* words after `@ on `
OnPrefix == <<"\"", "f", "\"", " ", "<", "u", ">", " ", "@", " ", "o", "n", " ">>
OnWords ==
    { <<"s", "u", "n", "d", "a", "y">>, <<"m", "o", "n", "d", "a", "y">>, <<"t", "u", "e", "s", "d", "a", "y">>, <<"w", "e", "d", "n", "e", "s", "d", "a", "y">>, <<"t", "h", "u", "r", "s", "d", "a", "y">>, <<"f", "r", "i", "d", "a", "y">>, <<"s", "a", "t", "u", "r", "d", "a", "y">>,
      <<"S", "u", "n", "d", "a", "y">>, <<"M", "O", "N", "D", "A", "Y">>, <<"t", "U", "e", "S", "d", "A", "y">>, <<"m", "o", "n">>, <<"T", "u", "e">>, <<"w", "e", "n", "d", "s", "d", "a", "y">>, <<"s", "u", "n", "d", "a", "e">>, <<"m", "o", "n", "d", "a", "y", "s">>,
      <<"f", "r", "i", "d", "a", "y", "x">>, <<"S", "a", "t", "u", "r", "d", "a", "y", "@">>, <<"d", "a", "y">>, <<"x">> }
OnLines == {OnPrefix \o w \o t : w \in OnWords, t \in {<<>>, <<" ", "@", " ", "o", "p", "e", "n", " ", "a", "l", "l">>}}

ExtraLines ==
    { <<"\"", "f", "\"", " ", "<", "u", ">", " ", "@", " ", "e", "v", "e", "r", "y", " ", "2", " ", "d", "a", "y", "s", "x">>, <<"\"", "f", "\"", " ", "<", "u", ">", " ", "@", " ", "e", "v", "e", "r", "y", " ", "x", " ", "d", "a", "y", "s">>, <<"\"", "f", "\"", " ", "<", "u", ">", " ", "@", " ", "e", "v", "e", "r", "y", " ", "2", "d", "a", "y", "s">>,
      <<"\"", "f", "\"", " ", "<", "u", ">", " ", "@", " ", "E", "V", "E", "R", "Y", " ", "1", "2", " ", "D", "A", "Y", "S">>, <<"\"", "f", "\"", " ", "<", "u", ">", " ", "@", " ", "o", "v", "e", "r", "l", "a", "p", " ", "2", " ", "c", "o", "m", "i", "c", "s", "x">>, <<"\"", "f", "\"", " ", "<", "u", ">", " ", "@", " ", "o", "p", "e", "n", " ", "a", "l", "l", "x">>,
      <<"\"", "f", "\"", " ", "<", "u", ">", " ", "@", " ", "O", "P", "E", "N", " ", "A", "L", "L">>, <<"\"", "f", "\"", " ", "<", "u", ">", " ", "@", " ", "K", "e", "e", "p", " ", "T", "i", "t", "l", "e", " ", "/", "a", "/">>, <<"\"", "f", "\"", " ", "<", "u", ">", " ", "@", " ", "k", "e", "e", "p", " ", "t", "i", "t", "l", "e", " ", "/", "(", "/">>,
      <<"\"", "f", "\"", " ", "<", "u", ">", " ", "@", " ", "k", "e", "e", "p", " ", "t", "i", "t", "l", "e">>, <<"\"", "f", "\"", " ", "<", "u", ">", " ", "@", " ", "k", "e", "e", "p", " ", "t", "i", "t", "l", "e", " ", "/", "a">>, <<"\"", "f", "\"", " ", "<", "u", ">", " ", "@", " ", "k", "e", "e", "p", " ", "b", "o", "d", "y", " ", "/", "a", "/">>,
      <<"\"", "f", "\"", " ", "<", "u", ">", " ", "@", "3", " ", "n", "e", "w", " ", "c", "o", "m", "i", "c", "s">>, <<"\"", "f", "\"", " ", "<", "u", ">", " ", "@", " ", "2", " ", "n", "e", "w", " ", "c", "o", "m", "i", "c", "s", "@", " ", "o", "n", " ", "m", "o", "n", "d", "a", "y">>,
      <<"\"", "f", "\"", " ", "<", "u", ">", " ", "@", " ", "k", "e", "e", "p", " ", "u", "r", "l", " ", "/", "a", "/", "@", " ", "o", "p", "e", "n", " ", "a", "l", "l">>, <<"\"", "f", "\"", " ", "<", "u", ">", " ", "@", " ", "2", " ", "N", "e", "w", " ", "C", "o", "m", "i", "c", " ", " ">>, <<"\"", "f", "\"", " ", "<", "u", ">", " ", "@", " ", "2", " ", "o", "l", "d", " ", "c", "o", "m", "i", "c", "s">>,
      <<"\"", "f", "\"", "<", "u", ">">>, <<"\"", "f", "\"", " ", "<", "u", ">", "@", " ", "o", "n", " ", "m", "o", "n", "d", "a", "y">>, <<"\"", "f", "\"", " ", "<", "u">>, <<"f", " ", "<", "u", ">">>, <<"\"", "f", "\"", " ", "<", "u", ">", "x">>, <<"\"", "f", "\"", " ", "u">>,
      <<"\"", "f", "\"", " ", "<", "u", ">", " ", "@", " ", "o", "n">>, <<"\"", "f", "\"", " ", "<", "u", ">", " ", "@">>, <<"R", "o", "o", "t", " ", "/", "a">>, <<"r", "o", "o", "t", "e", "d">>, <<"c", "o", "m", "m", "a", "n", "d", " ", "'", "x">>, <<"c", "o", "m", "m", "a", "n", "d", "x", " ", "y">>,
      <<"c", "o", "m", "m", "a", "n", "d", " ", "\"", "\"", " ", "'", "a", " ", "b", "'", " ", "c">>, <<"\"", "f", "\"", " ", "<", "u", ">", " ", "@", " ", "I", "G", "N", "O", "R", "E", " ", "U", "R", "L", " ", "/", "a", "/">>, <<"\"", "f", "\"", " ", "<", "u", ">", " ", "@", " ", "k", "E", "E", "P", " ", "t", "I", "T", "L", "E", " ", "/", "a", "/">>,
      <<"\"", "f", "\"", " ", "<", "u", ">", " ", "@", " ", "e", "v", "e", "r", "y", " ", "9", "9", "9", "9", "9", "9", "9", "9", "9", "9", "9", "9", "9", "9", "9", "9", "9", "9", "9", "9", " ", "d", "a", "y", "s">>,
      <<"\"", "f", "\"", " ", "<", "u", ">", " ", "@", " ", "1", "8", "4", "4", "6", "7", "4", "4", "0", "7", "3", "7", "0", "9", "5", "5", "1", "6", "1", "6", " ", "n", "e", "w", " ", "c", "o", "m", "i", "c", "s">>, <<"\"", "f", "\"", " ", "<", "u", ">", " ", "@", " ", "o", "v", "e", "r", "l", "a", "p", " ", "0", "0", "0", "0", "0", "0", "0", "0", "0", "0", "0", "0", "0", "0", "0", "0", "0", "0", "0", "0", "0", "2", " ", "c", "o", "m", "i", "c">> }

\* texts handed to parse_command
CommandTexts ==
    { <<"e", "x", "a", "m", "p", "l", "e", " ", "\"", "c", "o", "m", "m", "a", "n", "d", " ", "h", "e", "r", "e", "\"", " ", "'", "s", "i", "n", "g", "l", "e", " ", "q", "u", "o", "t", "e", "s", "'", " ", "t", "h", "e", "n", "-", "s", "o", "m", "e", "t", "h", "i", "n", "g">>, <<"a">>, <<" ", " ", "a", " ", " ", "b", " ", " ">>, <<"'", "a", " ", "b", "'">>,
      <<"\"", "a", " ", "b", "\"", " ", "c">>, <<"a", " ", "'", "b">>, <<"\"", "a">>, <<"x", "\"", "a", " ", "b", "\"">>, <<"x", "\"", "a">>, <<"'", "a", "'", "b">>, <<"\"", "\"">>, <<" ", "'", "'", " ", "x", " ">>, <<>>, <<" ", " ", " ">>,
      <<"'", "a", " ", "\"", "b", "'", " ", "c">>, <<"\"", "i", "t", "'", "s", "\"", " ", "x">>, <<"a", " ", " ", "'", "b", " ", " ", "c", "'", " ", " ">>, <<"-", "o", " ", "\"", "x", " ", "y", "\"", "z", " ", "'", "w">> }

CommandInputs == {<<t>> : t \in CommandTexts}

Files(lines, n) == UNION {[1..k -> lines] : k \in 0..n}

ConfigInputs ==
    Files(CoreConfigLines, MaxLines)
        \cup {<<<<>>, l>> : l \in FeedLines \cup OnLines \cup ExtraLines}

EventLines ==
    { <<>>, <<"<", "u", ">">>, <<" ", "<", "v", ">", " ">>, <<"<", "u", ">", " ", "x">>, <<"<", "u", ">", "x">>, <<"<", "u">>, <<"r", "e", "a", "d", " ", "2", "0", "1", "7", "-", "0", "7", "-", "1", "7", "T", "0", "3", ":", "2", "1", ":", "2", "1", "+", "0", "0", ":", "0", "0">>,
      <<"R", "E", "A", "D", " ", "2", "0", "1", "7", "-", "0", "7", "-", "1", "8", "t", "2", "3", ":", "4", "1", ":", "5", "8", "-", "0", "5", ":", "3", "0">>, <<"r", "e", "a", "d", " ", "2", "0", "1", "7", "-", "1", "3", "-", "1", "7", "T", "0", "3", ":", "2", "1", ":", "2", "1", "+", "0", "0", ":", "0", "0">>, <<"r", "e", "a", "d", " ", "s", "o", "o", "n">>,
      <<"r", "e", "a", "d", "2", "0", "1", "7", "-", "0", "7", "-", "1", "7", "T", "0", "3", ":", "2", "1", ":", "2", "1", "+", "0", "0", ":", "0", "0">>, <<"i", "n", "v", "a", "l", "i", "d">> }

EventInputs == Files(EventLines, MaxLines)

\* ------------------------------------------------------------ the state machine
\* row: the number of lines the loop has taken from input (the index enumerate()
\* gives the next one); ret: None while the call runs, then Some(returned value)
OkList(list) == [ok |-> TRUE, val |-> list]

Init ==
    /\ call \in {"parse_config", "parse_events", "parse_command"}
    /\ input \in IF call = "parse_config" THEN ConfigInputs
                 ELSE IF call = "parse_events" THEN EventInputs
                 ELSE CommandInputs
    /\ pc = "loop"
    /\ row = 0
    /\ out = <<>>
    /\ root_path = None
    /\ command = None
    /\ result = <<>>
    /\ ret = None

ConfigLine ==
    /\ call = "parse_config" /\ pc = "loop" /\ row < Len(input)
    /\ LET s == config_line(row, input[row + 1], root_path, command, out)
       IN  /\ root_path' = s.root_path
           /\ command' = s.command
           /\ out' = s.out
           /\ ret' = s.ret
           /\ pc' = IF s.ret = None THEN "loop" ELSE "done"
    /\ row' = row + 1
    /\ UNCHANGED <<call, input, result>>

ConfigReturn ==
    /\ call = "parse_config" /\ pc = "loop" /\ row = Len(input)
    /\ ret' = Some(OkList(out))
    /\ pc' = "done"
    /\ UNCHANGED <<call, input, row, out, root_path, command, result>>

EventLine ==
    /\ call = "parse_events" /\ pc = "loop" /\ row < Len(input)
    /\ LET s == event_line(row, input[row + 1], result)
       IN  /\ result' = s.result
           /\ ret' = s.ret
           /\ pc' = IF s.ret = None THEN "loop" ELSE "done"
    /\ row' = row + 1
    /\ UNCHANGED <<call, input, out, root_path, command>>

EventsReturn ==
    /\ call = "parse_events" /\ pc = "loop" /\ row = Len(input)
    /\ ret' = Some(OkList(result))
    /\ pc' = "done"
    /\ UNCHANGED <<call, input, row, out, root_path, command, result>>

\* a call of parse_command on the text input[1]
CommandCall ==
    /\ call = "parse_command" /\ pc = "loop"
    /\ LET r == parse_command(input[1])
       IN  ret' = Some(IF r.ok THEN OkList(r.val) ELSE r)
    /\ pc' = "done"
    /\ UNCHANGED <<call, input, row, out, root_path, command, result>>

Next == ConfigLine \/ ConfigReturn \/ EventLine \/ EventsReturn \/ CommandCall

Spec == Init /\ [][Next]_vars

\* ------------------------------------------------------------ properties
InConfig == call = "parse_config"
InEvents == call = "parse_events"
Returned == pc = "done"
ReturnedOk == pc = "done" /\ ret[1].ok
\* a ParseError was returned
ReturnedErr == pc = "done" /\ ~ret[1].ok /\ ~ret[1].panic
\* the call did not return: the thread panicked
Panicked == pc = "done" /\ ~ret[1].ok /\ ret[1].panic

\* what parse_config takes a line for
line_kind(line) ==
    LET buf == trim(Buffer(1, 0, line))
    IN  IF starts_with(buf, <<"#">>) \/ buf.text = <<>> THEN "skip"
        ELSE IF starts_with(buf, <<"r", "o", "o", "t">>) THEN "root"
        ELSE IF starts_with(buf, <<"c", "o", "m", "m", "a", "n", "d">>) THEN "command"
        ELSE "feed"

\* the text of a directive line after its keyword of k characters
directive_rest(line, k) == trim(advance(trim(Buffer(1, 0, line)), k)).text

FeedRows == {j \in 1..Len(input) : line_kind(input[j]) = "feed"}
NthFeedRow(i) == CHOOSE j \in FeedRows : Cardinality({k \in FeedRows : k <= j}) = i

\* the root and the command in force on line n: those of the nearest directive above it
RootBefore(n) ==
    LET D == {j \in 1..(n - 1) : line_kind(input[j]) = "root"}
    IN  IF D = {} \/ directive_rest(input[Max(D)], 4) = <<>> THEN None
        ELSE Some(directive_rest(input[Max(D)], 4))

CommandBefore(n) ==
    LET D == {j \in 1..(n - 1) : line_kind(input[j]) = "command"}
    IN  IF D = {} \/ directive_rest(input[Max(D)], 7) = <<>> THEN None
        ELSE Some(parse_command(directive_rest(input[Max(D)], 7)).val)

\* C1: every FeedInfo produced by parse_config carries the root and the command set by
\* the most recent root / command directive line above its feed line, and None when
\* there is no such line or the most recent one has an empty remainder.
C1_DirectiveStickiness ==
    InConfig =>
        \A i \in 1..Len(out) :
            /\ out[i].root = RootBefore(NthFeedRow(i))
            /\ out[i].command = CommandBefore(NthFeedRow(i))

\* two feed lines under one root directive, both carrying its value
C1_Witness ==
    /\ InConfig /\ ReturnedOk /\ Len(out) = 2
    /\ out[1].root # None /\ out[2].root = out[1].root
    /\ line_kind(input[1]) = "root"

\* C2: the list of entries is append-only across the loop of parse_config: a comment,
\* blank, root or command line leaves it as it is, a feed line that parses appends one
\* entry at the end; on success there is one entry per feed line, in file order.
C2_Step ==
    (InConfig /\ pc = "loop" /\ row < Len(input)) =>
        LET kind == line_kind(input[row + 1])
        IN  /\ kind # "feed" => out' = out
            /\ (kind = "feed" /\ ret' = None) =>
                   /\ Len(out') = Len(out) + 1
                   /\ SubSeq(out', 1, Len(out)) = out
            /\ (kind = "feed" /\ ret' # None) => out' = out

C2_OnSuccess ==
    (InConfig /\ ReturnedOk) =>
        /\ ret[1].val = out
        /\ Len(out) = Cardinality(FeedRows)
        /\ \A i \in 1..Len(out) :
               out[i].name = parse_name(trim(Buffer(1, 0, input[NthFeedRow(i)]))).val

C2_AppendOnly == [][C2_Step]_vars /\ []C2_OnSuccess

\* a root directive between two feed lines: the first entry keeps its unset root
C2_Witness ==
    /\ InConfig /\ ReturnedOk /\ Len(out) = 2
    /\ out[1].root = None /\ out[2].root # None
    /\ out[1].name # out[2].name

\* the failure of line j of the input, None if line j parses
ConfigLineFailure(j) ==
    LET buf == trim(Buffer(j, 0, input[j]))
        kind == line_kind(input[j])
        r == IF kind = "root" THEN root_directive(buf)
             ELSE IF kind = "command" THEN command_directive(buf)
             ELSE parse_line(buf)
    IN  IF kind = "skip" \/ r.ok THEN None ELSE Some(r)

EventLineFailure(j) ==
    LET s == event_line(j - 1, input[j], <<>>)
    IN  s.ret

LineFailure(j) == IF InConfig THEN ConfigLineFailure(j) ELSE EventLineFailure(j)

FailingRows == {j \in 1..Len(input) : LineFailure(j) # None}

\* C3: parse_config and parse_events return the failure of the lowest-numbered failing
\* line, with no list of the entries parsed before it, whatever the lines after it hold;
\* they return Ok only when no line fails.
C3_ShortCircuit ==
    ((InConfig \/ InEvents) /\ Returned) =>
        IF FailingRows = {} THEN ret[1].ok
        ELSE /\ ret = LineFailure(Min(FailingRows))
             /\ ~ret[1].ok
             /\ "val" \notin DOMAIN ret[1]
             /\ row = Min(FailingRows)

\* a failing line with entries parsed before it and lines left after it
C3_Witness ==
    /\ InConfig /\ ReturnedErr /\ out # <<>> /\ row < Len(input)
    /\ FailingRows # {row}

\* C4: every ParseError parse_events returns carries the 1-based number of the line
\* that failed (a bad timestamp, a malformed <url> line, a line of neither form).
C4_EventErrorRow ==
    (InEvents /\ ReturnedErr) => ret[1].err.row = row

\* C5: every ParseError parse_config returns carries the 1-based number of the line
\* that failed, be it a feed line, a root line or a command line.
C5_ConfigErrorRow ==
    (InConfig /\ ReturnedErr) => ret[1].err.row = row

\* the line the loop took last, and the cursor parse_config makes of it
LastLine == input[row]
LastBuf == trim(Buffer(row, 0, LastLine))
\* the loop took a feed line last and went on: the line was accepted
FeedAccepted == InConfig /\ row >= 1 /\ ret = None /\ line_kind(LastLine) = "feed"

\* the specs P1..Pn of the clauses of an accepted feed line, in line order
ClauseSpecs(buf) ==
    LET name == parse_name(buf)
        url == parse_url(trim_start(name.buf))
    IN  parse_policies(trim_start(url.buf)).val

DistinctCount(specs) ==
    Cardinality({i \in 1..Len(specs) : \A j \in 1..(i - 1) : specs[j] # specs[i]})

\* C6: the update_policies of a feed line whose clauses all parse has as many members
\* as there are structurally distinct specs among them; two Filter specs of one kind
\* with different patterns are two members.
C6_PolicySetCardinality ==
    FeedAccepted =>
        LET specs == ClauseSpecs(LastBuf)
            set == out[Len(out)].update_policies
        IN  /\ Cardinality(set) = DistinctCount(specs)
            /\ \A i \in 1..Len(specs) : specs[i] \in set
            /\ \A i, j \in 1..Len(specs) :
                   (/\ specs[i].tag = "Filter" /\ specs[j].tag = "Filter"
                    /\ specs[i].kind = specs[j].kind /\ specs[i].pat # specs[j].pat)
                   => Cardinality({specs[i], specs[j]} \cap set) = 2

\* two clauses of one spec collapse to one member
C6_Witness ==
    /\ FeedAccepted
    /\ Len(ClauseSpecs(LastBuf)) = 2
    /\ Cardinality(out[Len(out)].update_policies) = 1

\* the cursors parse_policy returns for the clauses of a line, one per accepted clause
RECURSIVE ClauseEnds(_)
ClauseEnds(buf) ==
    IF ~starts_with(buf, <<"@">>) THEN {}
    ELSE LET p == parse_policy(buf)
         IN  IF p.ok THEN {p.buf} \cup ClauseEnds(trim_start(p.buf)) ELSE {}

\* the clause that ends at cursor `end` of `line` is followed by whitespace or by the
\* end of the line (the whitespace may already be consumed)
Terminated(line, end) ==
    \/ end.text = <<>>
    \/ is_whitespace(line[end.col + 1])
    \/ is_whitespace(line[end.col])

\* C7: a policy clause is accepted only when its last token is followed by whitespace
\* or by the end of the line.
C7_ClauseTerminated ==
    FeedAccepted =>
        LET name == parse_name(LastBuf)
            url == parse_url(trim_start(name.buf))
        IN  \A end \in ClauseEnds(trim_start(url.buf)) : Terminated(LastLine, end)

\* C8: a feed line is accepted only if it is a quoted name, a <url> and `@` clauses and
\* nothing else: no text is left over after the URL or the last clause.
C8_WholeLineConsumed ==
    FeedAccepted => parse_line(LastBuf).buf.text = <<>>

\* C9: parse_events yields ComicUrl(u) for a line that starts with `<` only if the
\* trimmed line is exactly <u>.
C9_UrlLineExact ==
    (InEvents /\ row >= 1 /\ ret = None /\ starts_with(LastBuf, <<"<">>)) =>
        LastBuf.text = <<"<">> \o result[Len(result)].url \o <<">">>

\* the seven full weekday names and the weekday each stands for
WeekdayOf(w) ==
    IF lower(w) = <<"s", "u", "n", "d", "a", "y">> THEN Some("Sun")
    ELSE IF lower(w) = <<"m", "o", "n", "d", "a", "y">> THEN Some("Mon")
    ELSE IF lower(w) = <<"t", "u", "e", "s", "d", "a", "y">> THEN Some("Tue")
    ELSE IF lower(w) = <<"w", "e", "d", "n", "e", "s", "d", "a", "y">> THEN Some("Wed")
    ELSE IF lower(w) = <<"t", "h", "u", "r", "s", "d", "a", "y">> THEN Some("Thu")
    ELSE IF lower(w) = <<"f", "r", "i", "d", "a", "y">> THEN Some("Fri")
    ELSE IF lower(w) = <<"s", "a", "t", "u", "r", "d", "a", "y">> THEN Some("Sat")
    ELSE None

\* w goes on after a full weekday name
ExtendsWeekday(w) ==
    \E n \in 1..(Len(w) - 1) : WeekdayOf(SubSeq(w, 1, n)) # None

\* the loop has just taken the line `"f" <u> @ on ` w t
OnLineTaken(w, t) ==
    InConfig /\ row >= 1 /\ (pc = "loop" \/ ReturnedErr) /\ LastLine = OnPrefix \o w \o t

OnTails == {<<>>, <<" ", "@", " ", "o", "p", "e", "n", " ", "a", "l", "l">>}

\* the word w of an `@ on` clause was accepted as On(its weekday)
OnAccepted(w) ==
    /\ ret = None
    /\ WeekdayOf(w) # None
    /\ ClauseSpecs(LastBuf)[1] = On(WeekdayOf(w)[1])
    /\ On(WeekdayOf(w)[1]) \in out[Len(out)].update_policies

\* the word w of an `@ on` clause was rejected as no weekday, at its first column
OnRejectedAsWeekday ==
    /\ ReturnedErr
    /\ ~ret[1].panic
    /\ ret[1].err.msg = "a weekday"
    /\ ret[1].err.row = row
    /\ ret[1].err.span # None
    /\ ret[1].err.span[1][1] = Len(OnPrefix)

\* C10 as stated: `@ on <word>` is accepted exactly when <word> is one of the seven
\* full weekday names in any letter case, and yields On of that weekday; every other
\* word is rejected with the "a weekday" error at the line's row, its span starting at
\* the column of the word's first character.
C10_AsStated ==
    \A w \in OnWords, t \in OnTails :
        OnLineTaken(w, t) =>
            IF WeekdayOf(w) # None THEN OnAccepted(w) ELSE OnRejectedAsWeekday

\* C10, amended: `@ on <word>` is accepted exactly when <word> is one of the seven full
\* weekday names in any letter case, and yields On of that weekday; every other word
\* is rejected with a ParseError at the line's row, which is the "a weekday" error,
\* its span starting at the column of the word's first character, exactly when the
\* word does not begin with a full weekday name; a word that goes on after a full
\* weekday name is rejected by the check for whitespace or the end of the line.
C10_WeekdayWord ==
    \A w \in OnWords, t \in OnTails :
        OnLineTaken(w, t) =>
            IF WeekdayOf(w) # None THEN OnAccepted(w)
            ELSE IF ~ExtendsWeekday(w) THEN OnRejectedAsWeekday
            ELSE /\ ReturnedErr
                 /\ ~ret[1].panic
                 /\ ret[1].err.msg # "a weekday"
                 /\ ret[1].err.row = row

\* a weekday name in capitals is accepted
C10_Witness ==
    /\ OnLineTaken(<<"M", "O", "N", "D", "A", "Y">>, <<" ", "@", " ", "o", "p", "e", "n", " ", "a", "l", "l">>)
    /\ OnAccepted(<<"M", "O", "N", "D", "A", "Y">>)
    /\ Cardinality(out[Len(out)].update_policies) = 2

\* C11: for every input text parse_config and parse_events return Ok or a ParseError
\* and never panic: neither the unreachable! branch of the filter clause nor the expect
\* of parse_number is reached.
C11_NeverPanics ==
    (InConfig \/ InEvents) => ~Panicked

InCommand == call = "parse_command"
CommandText == input[1]
IsQuote(c) == c \in {"'", "\""}

\* the quote that is open after the first i characters of t, "" if none, when every
\* quote met outside a span opens one
RECURSIVE OpenQuote(_, _)
OpenQuote(t, i) ==
    IF i = 0 THEN ""
    ELSE LET q == OpenQuote(t, i - 1)
         IN  IF q = "" THEN (IF IsQuote(t[i]) THEN t[i] ELSE "")
             ELSE IF t[i] = q THEN "" ELSE q

\* character i of t opens or closes a span; character i is whitespace outside every span
SpanQuote(t, i) == (OpenQuote(t, i - 1) = "") # (OpenQuote(t, i) = "")
Splits(t, i) == is_whitespace(t[i]) /\ OpenQuote(t, i) = ""

\* the arguments of t when whitespace outside spans alone splits it and the quotes
\* around a span are dropped
ShellArgs(t) ==
    LET starts == {i \in 1..Len(t) : ~Splits(t, i) /\ (i = 1 \/ Splits(t, i - 1))}
        start(k) == CHOOSE s \in starts : Cardinality({x \in starts : x <= s}) = k
        end(s) == Min({j \in s..Len(t) : j = Len(t) \/ Splits(t, j + 1)})
        kept(s) == SelectSeq([k \in 1..(end(s) - s + 1) |-> s + k - 1],
                             LAMBDA i : ~SpanQuote(t, i))
    IN  [k \in 1..Cardinality(starts) |->
            [m \in 1..Len(kept(start(k))) |-> t[kept(start(k))[m]]]]

\* C12 as stated: parse_command splits its input by whitespace, whitespace inside a
\* '...' or "..." span never splitting an argument and the enclosing quotes being no
\* part of it; arguments come in input order, leading and trailing whitespace gives no
\* empty argument, and an opening quote without its closing quote gives a ParseError.
C12_AsStated ==
    (InCommand /\ Returned) =>
        IF OpenQuote(CommandText, Len(CommandText)) # ""
        THEN ReturnedErr
        ELSE ReturnedOk /\ ret[1].val = ShellArgs(CommandText)

\* the arguments of t from character i on, None when a quote that begins an argument
\* has no closing quote: an argument that begins with a quote runs to the next such
\* quote, any other argument to the next whitespace
RECURSIVE ArgsFrom(_, _)
ArgsFrom(t, i) ==
    LET s == Min({j \in i..(Len(t) + 1) : j > Len(t) \/ ~is_whitespace(t[j])})
    IN  IF s > Len(t) THEN Some(<<>>)
        ELSE IF IsQuote(t[s])
        THEN LET closing == {j \in (s + 1)..Len(t) : t[j] = t[s]}
             IN  IF closing = {} THEN None
                 ELSE LET rest == ArgsFrom(t, Min(closing) + 1)
                      IN  IF rest = None THEN None
                          ELSE Some(<<SubSeq(t, s + 1, Min(closing) - 1)>> \o rest[1])
        ELSE LET e == Min({j \in s..(Len(t) + 1) : j > Len(t) \/ is_whitespace(t[j])})
                 rest == ArgsFrom(t, e)
             IN  IF rest = None THEN None
                 ELSE Some(<<SubSeq(t, s, e - 1)>> \o rest[1])

\* what parse_command does for every text: an argument that begins with ' or " is the
\* text up to the next such quote, whitespace and all, without the two quotes, and the
\* next argument begins right after the closing quote; any other argument runs to the
\* next whitespace, quotes inside it being ordinary characters; a quote that begins an
\* argument and has no closing quote gives a ParseError.
CommandArgumentsByLeadingQuote ==
    (InCommand /\ Returned) =>
        IF ArgsFrom(CommandText, 1) = None THEN ReturnedErr
        ELSE ReturnedOk /\ ret[1].val = ArgsFrom(CommandText, 1)[1]

====
